---- MODULE Spec2Model ----
(***************************************************************************)
(* Model of the OKX snipe bot: main.py's entry point, and snipe_bot.py's   *)
(* run (polling loop) with SnipeBot.place_order, check_balance,            *)
(* get_current_price and calculate_buy_amount.                             *)
(*                                                                         *)
(* Units.  Prices and quote amounts are whole quote-currency units.        *)
(* max_price is held in hundredths of a unit so that limit_price * 1.01 is *)
(* exact.  Order quantities are held in units of 0.0001 (the "{:.4f}"      *)
(* format), the market's minimum amount in units of 0.00001.               *)
(* The exchange client (ccxt) is an opaque collaborator: each call returns *)
(* one of the outcomes enumerated below, chosen nondeterministically.      *)
(***************************************************************************)
EXTENDS Integers, FiniteSets, Sequences, TLC

VARIABLES
    pc,             \* position of the single thread of control
    entry,          \* "main": started by main.py; "direct": run(bot) called on a configured bot
    connected,      \* the SnipeBot constructor returned an exchange connection
    target_symbol,  \* self.target_symbol
    quote_amount,   \* self.quote_amount
    max_price,      \* self.max_price, in hundredths
    order_type,     \* self.order_type
    limit_price,    \* self.limit_price
    min_amount,     \* market['limits']['amount']['min'], in units of 0.00001
    min_cost,       \* market['limits']['cost']['min']
    retry_count,    \* run's local retry_count
    current_price,  \* run's local current_price (the polled price)
    sizing,         \* the price place_order sizes the order with
    amount,         \* place_order's local amount, in units of 0.0001
    order,          \* run's local order (the result of place_order)
    reason,         \* why place_order returned what it returned
    interrupted,    \* a KeyboardInterrupt was delivered
    calls,          \* exchange calls made so far, by kind
    iterCalls,      \* exchange calls made by place_order in the current iteration
    consecFails,    \* failed loop price fetches since the last successful one
    sleeps,         \* completed 1-second sleeps since the last loop price fetch
    accepted,       \* buy orders the exchange has accepted
    raised,         \* the exchange call that raised an Exception in the last step, or "none"
    env             \* "any": the exchange and the user may do anything;
                    \* "good": from now on every call succeeds in the purchase's favour

vars == <<pc, entry, connected, target_symbol, quote_amount, max_price,
          order_type, limit_price, min_amount, min_cost, retry_count,
          current_price, sizing, amount, order, reason, interrupted, calls,
          iterCalls, consecFails, sleeps, accepted, raised, env>>

----------------------------------------------------------------------------
(* Values *)

None == -1          \* Python's None
NonNumeric == -2    \* a ticker 'last' that is not a number (cannot be ordered or divided)
Unset == -3         \* a local variable not yet assigned
KeyboardInterrupt == -4     \* a call or sleep ended by a KeyboardInterrupt

MaxCalls == 7       \* bound on the exchange calls of one run

max_retries == 3
CallsPerPurchase == 4       \* poll, fetch_balance, place_order's fetch, create order
MainQuoteAmount == 100
MainMaxPrice == 3000
DefaultMinCalc == 1000      \* 0.01, in units of 0.00001
DefaultMinPlace == 10       \* 0.0001, in units of 0.00001

Markets == {"ETH/USDT"}
Symbols == {"None", "ETH/USDT", "FOO/USDT"}
QuoteAmounts == {None, MainQuoteAmount}
ConfigPrices == {None, MainMaxPrice}
TickerPrices == {2980, 2999, 3000, 3001}
FreeBalances == {50, 100}
MinAmounts == {None, 1000, 3334, 10000}
MinCosts == {0, 100, 200}

\* methods defined in the body of class SnipeBot; run and the second
\* place_order are defined at module level, after the class body
SnipeBotMethods == {"__init__", "_initialize_exchange", "_setup_logger",
                    "calculate_buy_amount", "get_current_price",
                    "check_balance", "place_order"}
ModuleFunctions == {"run", "place_order"}

LoopPcs == {"poll", "po_balance", "po_price", "po_create",
            "sleep_retry", "sleep_poll", "sleep_err"}
FinalPcs == {"main_error", "run_return_early", "run_done", "uncaught_interrupt"}

NoCalls == [ticker |-> 0, balance |-> 0, create |-> 0]
\* nothing done yet by place_order in this iteration; free is the free
\* balance fetch_balance reported (None when the fetch raised)
IterStart == [balance |-> 0, create |-> 0, ticker |-> 0, free |-> Unset]
TotalCalls == calls.ticker + calls.balance + calls.create

----------------------------------------------------------------------------
(* Pure helpers *)

\* Python truthiness of a number-or-None
Falsy(x) == x = None \/ x = 0

\* "{:.4f}".format(num/den) in units of 0.0001: nearest, ties to even
Round4(num, den) ==
    LET q == num \div den
        r == num % den
    IN  IF 2 * r > den \/ (2 * r = den /\ q % 2 = 1) THEN q + 1 ELSE q

\* SnipeBot.calculate_buy_amount: quantity in units of 0.0001, or None when
\* the division raises
calculate_buy_amount(price, quote, minA) ==
    IF price = NonNumeric \/ price = 0 \/ price = None
    THEN None
    ELSE LET m == IF minA = None THEN DefaultMinCalc ELSE minA
         IN  IF quote * 100000 >= m * price
             THEN Round4(quote * 10000, price)
             ELSE Round4(m, 10)

\* place_order's "amount < min_amount"
BelowMin(a, minA) ==
    LET m == IF minA = None THEN DefaultMinPlace ELSE minA
    IN  a * 10 < m

\* check_balance returning True for any balance it could read
BalanceOk_AnyBalance(free, quote) == free # None

\* SnipeBot.check_balance's verdict for a fetch_balance outcome
\* (None: the fetch raised)
BalanceOk(free, quote) == free # None /\ free >= quote

\* the comparison of run 275 inverted
PriceOk_Inverted(price, maxp) == price * 100 >= maxp

\* run: "if current_price <= self.max_price"
PriceOk(price, maxp) == price * 100 <= maxp

\* "if not order:" in place of run 278's test
OrderTruthy_Negated(o) == o # "order"

\* "if order is not None" in place of run 278's truthiness test
OrderTruthy_NotNone(o) == o # "None"

\* run: "if order:"
OrderTruthy(o) == o = "order"

\* run: "if retry_count >= max_retries"
AbortNow(rc) == rc >= max_retries

----------------------------------------------------------------------------
Init ==
    /\ entry \in {"main", "direct"}
    /\ min_amount \in MinAmounts
    /\ min_cost \in MinCosts
    /\ IF entry = "main"
       THEN /\ pc = "main_init"
            /\ connected = FALSE
            /\ target_symbol = "None"
            /\ quote_amount = None
            /\ max_price = None
            /\ order_type = "market"
            /\ limit_price = None
       ELSE /\ pc = "run_entry"
            /\ connected = TRUE
            /\ target_symbol \in Symbols
            /\ quote_amount \in QuoteAmounts
            /\ max_price \in {IF p = None THEN None ELSE p * 100 : p \in ConfigPrices}
            /\ order_type \in {"market", "limit"}
            /\ limit_price \in ConfigPrices
    /\ retry_count = Unset
    /\ current_price = Unset
    /\ sizing = Unset
    /\ amount = Unset
    /\ order = "unset"
    /\ reason = "none"
    /\ interrupted = FALSE
    /\ calls = NoCalls
    /\ iterCalls = IterStart
    /\ consecFails = 0
    /\ sleeps = 0
    /\ accepted = 0
    /\ raised = "none"
    /\ env = "any"

config == <<target_symbol, quote_amount, max_price, order_type, limit_price>>
market == <<min_amount, min_cost>>
static == <<entry, connected, config, market, env>>
loopLocals == <<retry_count, current_price, sizing, amount, order, reason>>
ghosts == <<interrupted, calls, iterCalls, consecFails, sleeps, accepted>>

----------------------------------------------------------------------------
(* main.py *)

\* main.py 15-28: construct the bot (which connects and loads the markets),
\* then assign the market-mode configuration
MainInit ==
    /\ pc = "main_init"
    /\ \E ok \in BOOLEAN :
        IF ok
        THEN /\ connected' = TRUE
             /\ target_symbol' = "ETH/USDT"
             /\ quote_amount' = MainQuoteAmount
             /\ order_type' = "market"
             /\ max_price' = MainMaxPrice * 100
             /\ pc' = "main_call"
             /\ UNCHANGED limit_price
        ELSE /\ pc' = "main_error"
             /\ UNCHANGED <<connected, config>>
    /\ UNCHANGED <<entry, market, env, loopLocals, ghosts, raised>>

\* main.py 38-40: bot.run() looks "run" up on the SnipeBot instance; a
\* missing attribute raises AttributeError, which main's except prints
MainCallRun ==
    /\ pc = "main_call"
    /\ pc' = IF "run" \in SnipeBotMethods THEN "run_entry" ELSE "main_error"
    /\ UNCHANGED <<static, loopLocals, ghosts, raised>>

----------------------------------------------------------------------------
(* run: validation *)

\* the default ceiling computed with 0.99 in place of 1.01
DefaultedMaxPrice_Below ==
    IF Falsy(max_price) /\ order_type = "limit" THEN limit_price * 99 ELSE max_price

\* run 220-226: the ceiling after the "if not self.max_price" block
DefaultedMaxPrice ==
    IF Falsy(max_price) /\ order_type = "limit" THEN limit_price * 101 ELSE max_price

\* run 212-218: the validation steps that run before max_price is defaulted
ReachesDefaulting ==
    /\ target_symbol # "None" /\ ~Falsy(quote_amount)
    /\ ~(order_type = "limit" /\ Falsy(limit_price))

\* the parameter checks without the "not in self.exchange.markets" test of 229
PassesParamChecks_NoMarketCheck ==
    /\ ReachesDefaulting
    /\ ~(Falsy(max_price) /\ order_type # "limit")

\* run 212-231: TRUE when no parameter check returns
PassesParamChecks ==
    /\ ReachesDefaulting
    /\ ~(Falsy(max_price) /\ order_type # "limit")
    /\ target_symbol \in Markets

\* the test of run 239 with "<=" in place of "<"
MinCostStops_Inclusive(quote, minc) == ~Falsy(minc) /\ quote <= minc

\* run 239: "if min_cost and self.quote_amount < min_cost"
MinCostStops(quote, minc) == ~Falsy(minc) /\ quote < minc

\* run 212-241: TRUE when no validation step returns
Validated ==
    /\ PassesParamChecks
    /\ ~MinCostStops(quote_amount, min_cost)

\* run without its outer try/except: the exception leaves run
OnInitError_Propagates == "exception_out_of_run"

\* run 299-301: the outer "except Exception": log and fall off the end of run
OnInitError == "run_return_early"

RunLoadOutcomes == {"ok", "load_raises", "market_raises"}

\* run 205-257 and 299-301: reload the markets, validate, enter the loop.
\* "load_raises": load_markets (208) raises; "market_raises": the market
\* lookup of 234 raises, which takes the parameter checks to have passed
RunValidate ==
    /\ pc = "run_entry"
    /\ \E out \in RunLoadOutcomes :
        CASE out = "load_raises" ->
                /\ pc' = OnInitError
                /\ raised' = "load_markets"
                /\ UNCHANGED <<max_price, retry_count>>
          [] out = "market_raises" /\ PassesParamChecks ->
                /\ max_price' = DefaultedMaxPrice
                /\ pc' = OnInitError
                /\ raised' = "market"
                /\ UNCHANGED retry_count
          [] OTHER ->
                /\ max_price' = IF ReachesDefaulting THEN DefaultedMaxPrice ELSE max_price
                /\ raised' = "none"
                /\ IF Validated
                   THEN pc' = "poll" /\ retry_count' = 0
                   ELSE pc' = "run_return_early" /\ UNCHANGED retry_count
    /\ UNCHANGED <<entry, connected, target_symbol, quote_amount, order_type,
                   limit_price, market, env, current_price, sizing, amount,
                   order, reason, ghosts>>

----------------------------------------------------------------------------
(* The exchange and the user *)

\* place_order 137-152: the quantity sized at price p passes the minimum check
QuantityOk(p) ==
    LET a == calculate_buy_amount(p, quote_amount, min_amount)
    IN  a # None /\ ~BelowMin(a, min_amount)

\* ticker prices at or below the ceiling with which a market order can be sized
GoodPrices ==
    {r \in TickerPrices :
        r * 100 <= max_price /\ (order_type = "market" => QuantityOk(r))}

GoodBalances == {f \in FreeBalances : f >= quote_amount}

\* outcomes of fetch_ticker: a last price, a failure (None), a last value
\* that is not a number, or a KeyboardInterrupt during the call
TickerOutcomes ==
    IF env = "good" THEN GoodPrices
    ELSE TickerPrices \cup {None, NonNumeric, KeyboardInterrupt}

\* outcomes of fetch_balance: the free quote balance, a failure (None), or
\* a KeyboardInterrupt during the call
BalanceOutcomes ==
    IF env = "good" THEN GoodBalances
    ELSE FreeBalances \cup {None, KeyboardInterrupt}

\* outcomes of the two exchange.market lookups of a sizing: both succeed,
\* the one in calculate_buy_amount (85) raises, or the one in place_order
\* (143 / 174) raises
MarketLookups ==
    IF env = "good" THEN {"ok"} ELSE {"ok", "raise_calc", "raise_place"}

\* outcomes of create_market_buy_order / create_limit_buy_order;
\* "raise_accepted" is a call that takes effect on the exchange and then
\* raises (a timeout), "falsy" one that returns an empty result
CreateOutcomes ==
    IF env = "good" THEN {"order"}
    ELSE {"order", "falsy", "raise", "raise_accepted", "interrupt"}

\* time.sleep(1) returns (TRUE) or is ended by a KeyboardInterrupt (FALSE)
SleepOutcomes == IF env = "good" THEN {TRUE} ELSE BOOLEAN

\* From some point on the exchange answers every call in the purchase's
\* favour and the user does not interrupt.  The run has passed validation,
\* such answers exist, and the call budget leaves room for one purchase.
EnvSettle ==
    /\ env = "any"
    /\ pc \in LoopPcs
    /\ TotalCalls + CallsPerPurchase <= MaxCalls
    /\ GoodPrices # {}
    /\ GoodBalances # {}
    /\ order_type = "limit" => QuantityOk(limit_price)
    /\ env' = "good"
    /\ UNCHANGED <<pc, entry, connected, config, market, loopLocals, ghosts, raised>>

----------------------------------------------------------------------------
(* run: the polling loop *)

\* run 291-294: "except KeyboardInterrupt" of the loop body's try: log, break
HandleInterrupt ==
    /\ interrupted' = TRUE
    /\ pc' = "run_done"

\* the "except Exception" handler without its sleep
AfterError_NoSleep == "poll"

\* run 295-297: "except Exception" of the loop body's try: log, then sleep
AfterError == "sleep_err"

\* run 268-270: after a failed fetch below the limit: log, sleep, continue
AfterFetchFailure == "sleep_retry"

\* run 287-289: the end of an iteration that placed no order
EndIteration ==
    /\ retry_count' = 0
    /\ pc' = "sleep_poll"

\* the loop breaking whatever place_order returned
ReturnToLoop_AlwaysBreak(o, why) ==
    /\ order' = o
    /\ reason' = why
    /\ pc' = "run_done"
    /\ UNCHANGED retry_count

\* run 277-289: place_order returned o to the loop
ReturnToLoop(o, why) ==
    /\ order' = o
    /\ reason' = why
    /\ IF OrderTruthy(o)
       THEN pc' = "run_done" /\ UNCHANGED retry_count
       ELSE EndIteration

\* run 262-289 up to the call of place_order: fetch the price
\* (get_current_price 102-109 turns an exception into None), count
\* failures, compare with the ceiling
LoopFetch ==
    /\ pc = "poll"
    /\ TotalCalls < MaxCalls
    /\ calls' = [calls EXCEPT !.ticker = @ + 1]
    /\ iterCalls' = IterStart
    /\ sleeps' = 0
    /\ \E r \in TickerOutcomes :
        CASE r = KeyboardInterrupt ->
                /\ HandleInterrupt
                /\ raised' = "none"
                /\ UNCHANGED <<retry_count, current_price, consecFails>>
          [] r = None ->
                /\ current_price' = None
                /\ raised' = "fetch_ticker"
                /\ retry_count' = retry_count + 1
                /\ consecFails' = consecFails + 1
                /\ pc' = IF AbortNow(retry_count + 1) THEN "run_done" ELSE AfterFetchFailure
                /\ UNCHANGED interrupted
          [] r = NonNumeric ->
                \* "current_price <= self.max_price" raises TypeError
                /\ current_price' = r
                /\ raised' = "none"
                /\ consecFails' = 0
                /\ pc' = AfterError
                /\ UNCHANGED <<retry_count, interrupted>>
          [] OTHER ->
                /\ current_price' = r
                /\ raised' = "none"
                /\ consecFails' = 0
                /\ IF PriceOk(r, max_price)
                   THEN pc' = "po_balance" /\ UNCHANGED retry_count
                   ELSE EndIteration
                /\ UNCHANGED interrupted
    /\ UNCHANGED <<static, sizing, amount, order, reason, accepted>>

\* place_order 137-152 / 168-183 with its "except Exception" (200-202):
\* size the order at price p, look the market up, check the minimum
SizeOrder(p) ==
    \E mk \in MarketLookups :
        LET a == IF mk = "raise_calc" THEN None
                 ELSE calculate_buy_amount(p, quote_amount, min_amount)
        IN  /\ sizing' = p
            /\ amount' = a
            /\ raised' = CASE mk = "raise_calc" -> "market_calc"
                           [] mk = "raise_place" /\ a # None -> "market_place"
                           [] OTHER -> "none"
            /\ IF a = None
               THEN ReturnToLoop("None", "calc_failed")
               ELSE IF mk = "raise_place"
                    THEN ReturnToLoop("None", "lookup_failed")
                    ELSE IF BelowMin(a, min_amount)
                         THEN ReturnToLoop("None", "below_min")
                         ELSE pc' = "po_create" /\ UNCHANGED <<order, reason, retry_count>>

\* place_order 126-131 with check_balance 111-122; in limit mode also 168-183
CheckBalance ==
    /\ pc = "po_balance"
    /\ TotalCalls < MaxCalls
    /\ calls' = [calls EXCEPT !.balance = @ + 1]
    /\ \E free \in BalanceOutcomes :
        CASE free = KeyboardInterrupt ->
                /\ HandleInterrupt
                /\ iterCalls' = [iterCalls EXCEPT !.balance = 1]
                /\ raised' = "none"
                /\ UNCHANGED <<retry_count, sizing, amount, order, reason>>
          [] free # KeyboardInterrupt /\ ~BalanceOk(free, quote_amount) ->
                /\ ReturnToLoop("None", IF free = None THEN "balance_error" ELSE "insufficient")
                /\ iterCalls' = [iterCalls EXCEPT !.balance = 1, !.free = free]
                /\ raised' = IF free = None THEN "fetch_balance" ELSE "none"
                /\ UNCHANGED <<sizing, amount, interrupted>>
          [] OTHER ->
                /\ iterCalls' = [iterCalls EXCEPT !.balance = 1, !.free = free]
                /\ IF order_type = "market"
                   THEN /\ pc' = "po_price"
                        /\ raised' = "none"
                        /\ UNCHANGED <<retry_count, sizing, amount, order, reason>>
                   ELSE SizeOrder(limit_price)
                /\ UNCHANGED interrupted
    /\ UNCHANGED <<static, current_price, consecFails, sleeps, accepted>>

\* place_order 132-152 (market mode): fetch the price again and size with it
PlaceFetchPrice ==
    /\ pc = "po_price"
    /\ TotalCalls < MaxCalls
    /\ calls' = [calls EXCEPT !.ticker = @ + 1]
    /\ iterCalls' = [iterCalls EXCEPT !.ticker = 1]
    /\ \E r \in TickerOutcomes :
        CASE r = KeyboardInterrupt ->
                /\ HandleInterrupt
                /\ raised' = "none"
                /\ UNCHANGED <<retry_count, sizing, amount, order, reason>>
          [] r = None ->
                /\ ReturnToLoop("None", "no_price")
                /\ raised' = "fetch_ticker_po"
                /\ UNCHANGED <<sizing, amount, interrupted>>
          [] OTHER ->
                /\ SizeOrder(r)
                /\ UNCHANGED interrupted
    /\ UNCHANGED <<static, current_price, consecFails, sleeps, accepted>>

\* place_order 156-166 / 187-202: create the order
CreateOrder ==
    /\ pc = "po_create"
    /\ TotalCalls < MaxCalls
    /\ calls' = [calls EXCEPT !.create = @ + 1]
    /\ iterCalls' = [iterCalls EXCEPT !.create = 1]
    /\ \E out \in CreateOutcomes :
        /\ accepted' = IF out \in {"order", "falsy", "raise_accepted"}
                       THEN accepted + 1 ELSE accepted
        /\ raised' = IF out \in {"raise", "raise_accepted"} THEN "create" ELSE "none"
        /\ CASE out = "interrupt" ->
                    /\ HandleInterrupt
                    /\ UNCHANGED <<retry_count, order, reason>>
             [] out = "order" ->
                    /\ ReturnToLoop("order", "created")
                    /\ UNCHANGED interrupted
             [] out = "falsy" ->
                    /\ ReturnToLoop("falsy", "created_falsy")
                    /\ UNCHANGED interrupted
             [] OTHER ->
                    /\ ReturnToLoop("None", "create_failed")
                    /\ UNCHANGED interrupted
    /\ UNCHANGED <<static, current_price, sizing, amount, consecFails, sleeps>>

\* time.sleep(1) inside the loop body's try (269 or 289), then the next iteration
SleepInTry ==
    /\ \E woke \in SleepOutcomes :
        IF woke
        THEN pc' = "poll" /\ sleeps' = sleeps + 1 /\ UNCHANGED interrupted
        ELSE HandleInterrupt /\ UNCHANGED sleeps
    /\ raised' = "none"
    /\ UNCHANGED <<static, loopLocals, calls, iterCalls, consecFails, accepted>>

\* run 269-270
SleepRetry ==
    /\ pc = "sleep_retry"
    /\ SleepInTry

\* run 289
SleepPoll ==
    /\ pc = "sleep_poll"
    /\ SleepInTry

\* run 296-297: the sleep of the "except Exception" handler; a
\* KeyboardInterrupt raised here is outside the try body, so no handler of
\* run (nor main's "except Exception") catches it
SleepErr ==
    /\ pc = "sleep_err"
    /\ \E woke \in SleepOutcomes :
        IF woke
        THEN pc' = "poll" /\ sleeps' = sleeps + 1 /\ UNCHANGED interrupted
        ELSE pc' = "uncaught_interrupt" /\ interrupted' = TRUE /\ UNCHANGED sleeps
    /\ raised' = "none"
    /\ UNCHANGED <<static, loopLocals, calls, iterCalls, consecFails, accepted>>

----------------------------------------------------------------------------
\* the steps of the program's single thread inside run
RunStep ==
    \/ RunValidate
    \/ LoopFetch
    \/ CheckBalance
    \/ PlaceFetchPrice
    \/ CreateOrder
    \/ SleepRetry
    \/ SleepPoll
    \/ SleepErr

Next ==
    \/ MainInit
    \/ MainCallRun
    \/ RunValidate
    \/ LoopFetch
    \/ CheckBalance
    \/ PlaceFetchPrice
    \/ CreateOrder
    \/ SleepRetry
    \/ SleepPoll
    \/ SleepErr
    \/ EnvSettle

Spec == Init /\ [][Next]_vars

\* the thread keeps running: a blocking call or sleep that can return does
\* return, and the statement after it is executed
LiveSpec == Init /\ [][Next]_vars /\ WF_vars(RunStep)

TypeOK ==
    /\ pc \in LoopPcs \cup FinalPcs \cup {"main_init", "main_call", "run_entry"}
    /\ retry_count \in {Unset} \cup (0 .. max_retries)
    /\ TotalCalls <= MaxCalls
    /\ env \in {"any", "good"}

----------------------------------------------------------------------------
(* Properties *)

PlaceOrderPcs == {"po_balance", "po_price", "po_create"}

\* run left the loop at 265-267: neither an order nor an interruption ended it
AbortedForFetchFailure ==
    pc = "run_done" /\ ~interrupted /\ order # "order"

\* C1: threshold gating.  place_order is running, or has made a balance
\* fetch or an order-creation call in the current iteration, only if the
\* price polled by this iteration is a number at or below max_price; when
\* the polled price is above max_price the iteration has made no balance
\* fetch and no order-creation call.
C1_ThresholdGating ==
    /\ (pc \in PlaceOrderPcs \/ iterCalls.balance > 0 \/ iterCalls.create > 0)
          => (current_price >= 0 /\ current_price * 100 <= max_price)
    /\ (current_price >= 0 /\ current_price * 100 > max_price)
          => (pc \notin PlaceOrderPcs /\ iterCalls.balance = 0 /\ iterCalls.create = 0)

\* an order-creation call was made in an iteration whose polled price is
\* at or below the ceiling
C1_Witness ==
    /\ iterCalls.create = 1
    /\ current_price >= 0
    /\ current_price * 100 <= max_price

\* C2: slippage protection.  In market mode, whenever the order-creation
\* call has been made, the price place_order fetched to size the order is at
\* or below max_price.
C2_SlippageProtection ==
    (order_type = "market" /\ iterCalls.create = 1) => sizing * 100 <= max_price

\* C3: retry budget.  The loop aborts for price-fetch failure only after the
\* first failed fetch and the 3 retries that follow it have all failed, that
\* is after max_retries + 1 consecutive failed fetches.
C3_RetryBudget ==
    AbortedForFetchFailure => consecFails = max_retries + 1

\* C4: terminal conditions.  A step leaves the polling loop only if
\* (a) place_order has just returned an order, (b) the price fetch has just
\* failed with the failure counter at its limit, or (c) a KeyboardInterrupt
\* was delivered in that step; every other step taken in the loop stays in
\* the loop.
C4_TerminalConditions ==
    [][ (pc \in LoopPcs /\ pc' \notin LoopPcs)
          => \/ (pc = "po_create" /\ order' = "order")
             \/ (pc = "poll" /\ current_price' = None /\ retry_count' >= max_retries)
             \/ (interrupted' /\ ~interrupted) ]_vars

\* the loop has exited because an order was placed
C4_Witness ==
    pc = "run_done" /\ order = "order" /\ ~interrupted

\* C5: continue on order failure.  When place_order returns without an
\* order (and without an interruption), the loop does not exit: the failure
\* counter is 0 and the loop is at its end-of-iteration sleep; from that
\* sleep, unless interrupted, the program's next step is another price poll.
C5_ContinueOnOrderFailure ==
    [][ /\ (pc \in PlaceOrderPcs /\ pc' \notin PlaceOrderPcs
               /\ order' # "order" /\ ~interrupted')
            => (retry_count' = 0 /\ pc' = "sleep_poll")
        /\ (pc = "sleep_poll" /\ ~interrupted' /\ env' = env) => pc' = "poll" ]_vars

\* place_order has failed three times in a row, no order-creation call was
\* ever made, and the loop is about to poll again
C5_Witness ==
    /\ pc = "poll"
    /\ calls.balance >= 3
    /\ calls.create = 0
    /\ order = "None"
    /\ retry_count = 0

\* C6: fixed budget.  For every order submitted, quantity * sizing price
\* equals quote_amount up to the rounding of the quantity to 4 decimals
\* (half of 0.0001 times the price), and does not exceed quote_amount.
C6_FixedBudget ==
    iterCalls.create = 1 =>
        LET cost == amount * sizing             \* in units of 0.0001
            budget == quote_amount * 10000
            diff == IF cost >= budget THEN cost - budget ELSE budget - cost
        IN  /\ 2 * diff <= sizing
            /\ cost <= budget

\* C7: program flow from the entry point.  A program started from main whose
\* connection initialised has, by the time it ends, entered the polling loop
\* and made at least one price fetch.
C7_ProgramFlow ==
    (entry = "main" /\ connected /\ pc \in FinalPcs) => calls.ticker >= 1

\* C8: poll spacing.  Whenever the loop is about to fetch the price again,
\* exactly one 1-second sleep has completed since its previous fetch; no
\* path makes more than one.
C8_PollSpacing ==
    /\ (pc = "poll" /\ current_price # Unset) => sleeps = 1
    /\ sleeps <= 1

\* the loop is about to poll again after an iteration that ended in the
\* "except Exception" handler
C8_Witness ==
    pc = "poll" /\ current_price = NonNumeric /\ sleeps = 1

\* C9: manual interruption.  A KeyboardInterrupt delivered while the loop
\* runs ends the loop through the "except KeyboardInterrupt" handler, and
\* no exchange call is made after it.
C9_ManualInterruption ==
    [][ /\ interrupted' => pc' = "run_done"
        /\ interrupted => calls' = calls ]_vars

\* C10: consecutive-failure counting.  An iteration whose price fetch
\* succeeded leaves the failure counter at 0 for the next poll, and the loop
\* aborts for price-fetch failure only after max_retries failed fetches in a
\* row.
C10_ConsecutiveCounting ==
    /\ (pc = "poll" /\ current_price \notin {Unset, None}) => retry_count = 0
    /\ AbortedForFetchFailure => consecFails >= max_retries

\* run has been entered and has left its validation
RunStartedPcs == LoopPcs \cup {"run_return_early", "run_done", "uncaught_interrupt"}

\* C11: validation before polling.  Once run is past its validation with
\* target_symbol or quote_amount unset, or a limit order without limit_price,
\* or a market order without max_price, or a target_symbol that is not among
\* the loaded markets, it has returned and has made no ticker fetch, balance
\* fetch or order-creation call; and no exchange call is made before the
\* validation has completed.
C11_ValidationBeforePolling ==
    /\ ( /\ pc \in RunStartedPcs
         /\ \/ target_symbol = "None"
            \/ quote_amount = None
            \/ (order_type = "limit" /\ limit_price = None)
            \/ (order_type = "market" /\ max_price = None)
            \/ target_symbol \notin Markets )
          => (pc = "run_return_early" /\ calls = NoCalls)
    /\ pc \in {"main_init", "main_call", "run_entry"} => calls = NoCalls

\* run has returned from its validation because the symbol, otherwise well
\* configured for a market order, is not among the loaded markets
C11_Witness ==
    /\ pc = "run_return_early"
    /\ raised = "none"
    /\ target_symbol = "FOO/USDT"
    /\ quote_amount # None
    /\ order_type = "market"
    /\ max_price # None
    /\ calls = NoCalls

\* C12: liveness of the purchase.  In a run that passed validation, if from
\* some point on every price fetch returns a price at or below max_price,
\* the free balance covers quote_amount, the sized quantity reaches the
\* market minimum, order creation succeeds and nobody interrupts, then the
\* loop eventually ends with an order placed.
C12_PurchaseLiveness ==
    (env = "good") ~> (pc = "run_done" /\ order = "order")

\* the loop has ended with an order placed after the exchange settled
C12_Witness ==
    /\ env = "good"
    /\ pc = "run_done"
    /\ order = "order"
    /\ accepted >= 1

\* C13: failures are contained.  When an exchange call has just raised an
\* Exception, the exception has not left run: a failure of load_markets or
\* of the market lookup before the loop has made run return with no
\* exchange call made; a failed loop price fetch has become a None price
\* followed by the retry sleep or the abort at the limit; a failure inside
\* place_order (balance fetch, price fetch, market lookup, order creation)
\* has become a None result followed by the end-of-iteration sleep.
C13_FailuresContained ==
    /\ raised # "none" => pc \in RunStartedPcs
    /\ raised \in {"load_markets", "market"}
          => (pc = "run_return_early" /\ calls = NoCalls)
    /\ raised = "fetch_ticker"
          => (current_price = None /\ pc \in {"sleep_retry", "run_done"})
    /\ raised \in {"fetch_balance", "fetch_ticker_po", "market_calc",
                   "market_place", "create"}
          => (order = "None" /\ pc = "sleep_poll")

\* the order-creation call has just raised, and the loop is at its
\* end-of-iteration sleep with no order
C13_Witness ==
    /\ raised = "create"
    /\ order = "None"
    /\ pc = "sleep_poll"

\* C14: calculate_buy_amount guarantees the minimum.  Whenever
\* calculate_buy_amount has returned a number, that quantity (after the
\* 4-decimal formatting) is at least the market's minimum amount, and
\* place_order never takes its "amount < min_amount" rejection.
C14_MinimumGuaranteed ==
    /\ (amount >= 0 /\ min_amount # None) => amount * 10 >= min_amount
    /\ reason # "below_min"

\* C15: at most one purchase per run.  The exchange never accepts a second
\* buy order in a run, and once it has accepted one the bot makes no further
\* order-creation call.
C15_AtMostOnePurchase ==
    [][ /\ accepted' <= 1
        /\ accepted >= 1 => calls'.create = calls.create ]_vars

\* C16: balance check precedes every order.  When place_order is at, or has
\* made, its order-creation call, the same place_order call has fetched the
\* balance and the free quote balance reported was at least quote_amount;
\* when the balance fetch failed or reported less, place_order has returned
\* None without fetching a price or creating an order.
C16_BalanceCheckPrecedes ==
    /\ (pc = "po_create" \/ iterCalls.create = 1)
          => /\ iterCalls.balance = 1
             /\ iterCalls.free >= 0
             /\ iterCalls.free >= quote_amount
    /\ ( /\ iterCalls.balance = 1
         /\ \/ iterCalls.free = None
            \/ (iterCalls.free >= 0 /\ iterCalls.free < quote_amount) )
          => /\ order = "None"
             /\ pc \notin PlaceOrderPcs
             /\ iterCalls.ticker = 0
             /\ iterCalls.create = 0

\* an order-creation call has been made after a balance fetch that
\* reported enough free balance
C16_Witness ==
    /\ iterCalls.create = 1
    /\ iterCalls.balance = 1
    /\ iterCalls.free >= quote_amount

\* C17: default ceiling in limit mode.  When run enters the loop for a limit
\* order whose limit_price is set and whose max_price was unset, max_price
\* is then 1.01 times limit_price (101 hundredths per unit), hence at least
\* limit_price, and no exchange call has been made yet; no step of the loop
\* changes max_price; and run never changes a max_price that was set.
C17_DefaultCeiling ==
    [][ /\ ( /\ pc = "run_entry" /\ pc' \in LoopPcs
             /\ order_type = "limit" /\ limit_price # None /\ max_price = None )
              => /\ max_price' = limit_price * 101
                 /\ max_price' >= limit_price * 100
                 /\ calls' = NoCalls
        /\ pc \in LoopPcs => max_price' = max_price
        /\ (pc = "run_entry" /\ max_price # None) => max_price' = max_price ]_vars

\* the loop has polled at least once for a limit order under the defaulted
\* ceiling
C17_Witness ==
    /\ pc \in LoopPcs
    /\ order_type = "limit"
    /\ limit_price # None
    /\ max_price = limit_price * 101
    /\ calls.ticker >= 1

\* the configuration passes the parameter checks of run 212-231
ParamsAccepted ==
    /\ target_symbol \in Markets
    /\ quote_amount # None /\ quote_amount # 0
    /\ IF order_type = "limit"
       THEN limit_price # None /\ limit_price # 0
       ELSE max_price # None /\ max_price # 0

\* C18: minimum-cost gate.  When run validates an accepted configuration
\* and no exchange call raises: if the market's minimum cost is non-zero and
\* quote_amount is below it, run returns with no ticker fetch, balance fetch
\* or order-creation call made; otherwise (quote_amount at least the minimum
\* cost, or no minimum) run goes on to its first poll.  After the early
\* return no exchange call follows.
C18_MinimumCostGate ==
    [][ /\ (pc = "run_entry" /\ pc' # "run_entry" /\ raised' = "none" /\ ParamsAccepted)
              => IF min_cost # 0 /\ quote_amount < min_cost
                 THEN pc' = "run_return_early" /\ calls' = NoCalls
                 ELSE pc' = "poll"
        /\ pc = "run_return_early" => calls' = calls ]_vars

\* run has returned early from an accepted configuration whose quote_amount
\* is below the market's minimum cost
C18_Witness ==
    /\ pc = "run_return_early"
    /\ raised = "none"
    /\ ParamsAccepted
    /\ min_cost # 0
    /\ quote_amount < min_cost
    /\ calls = NoCalls

====
